---- MODULE Spec2Model ----
(***************************************************************************)
(* Model of the PDF layout code of anuvad.                                 *)
(*                                                                         *)
(*   generate-pdf route   (src/unnamed/part_002): POST, createTranslatedPdf *)
(*   process-document     (src/unnamed/part_004): POST, createTranslatedPdf *)
(*                                                                         *)
(* Text is a sequence of code points.  Lengths are in thousandths of a     *)
(* point, so that the A4 default of pdf-lib's addPage() (595.28 x 841.89)  *)
(* and the AFM glyph widths (1/1000 em) stay integers.  Kerning pairs of   *)
(* the standard fonts are left out of the width measurement.               *)
(***************************************************************************)
EXTENDS Integers, Sequences, FiniteSets, TLC

VARIABLES
    \* ---- generate-pdf (part_002) ----
    file,             \* the 'file' form field is present
    srcValid,         \* PDFDocument.load accepts the uploaded bytes
    srcPages,         \* geometry of the pages of the uploaded PDF
    translatedText,   \* the 'translatedText' form field / argument
    pc,               \* position in POST / createTranslatedPdf
    pages,            \* pdfDoc.getPages(): geometry of each page
    ops,              \* drawRectangle / drawText calls issued, in order
    lines,            \* lines of the for-of loop not yet visited
    parts,            \* parts of the current line not yet visited
    remainingText,    \* remainingText of the wrap loop
    font,             \* font of the current part
    segments,         \* parts of the current line visited so far, as they were read
    lineStart,        \* page index and yPosition when the current line was entered
    yPosition,
    currentPageIndex, \* index into pages, 0-based as in the source
    maxWidth,
    response,         \* what POST answers
    \* ---- process-document (part_004) ----
    pdFile,           \* the 'file' form field is present
    pdMimeType,       \* fileTypeFromBuffer(buffer), else file.type, else text/plain
    pdSrcValid,       \* PDFDocument.load accepts the uploaded bytes
    pdSrcPages,       \* geometry of the pages of the uploaded PDF
    pdFault,          \* the step of the request an outside failure hits, if any
    pdFallbackFault,  \* embedFont fails on the fallback document
    pdTranslatedText, \* what translateText returns
    pdPc,             \* position in POST / createTranslatedPdf
    pdPath,           \* "primary" until the catch block is entered
    pdPages,          \* pdfDoc.getPages() of the primary document
    pdOps,            \* drawRectangle / drawText calls on the primary document
    pdLines,          \* lines of the for-of loop not yet visited
    pdYPosition,
    pdResult,         \* the document createTranslatedPdf returned, if any
    pdResponse,       \* what POST answers
    \* ---- Home component (part_001) ----
    uiFile,           \* file: 0 for null, else the file selected
    uiOriginalText,   \* originalText
    uiTranslatedText, \* translatedText
    uiEditedText,     \* editedText
    uiIsLoading,      \* isLoading
    uiIsEditing,      \* isEditing
    uiPending,        \* files of the /api/process-document requests in flight
    uiSent,           \* body of the /api/generate-pdf request sent last, if any
    uiLast,           \* the handler that ran last
    uiBeforeEdit,     \* translatedText when Edit was last pressed
    uiArrived,        \* a response was applied since Edit was last pressed
    \* ---- process-document (src/app/api/process-document/route.ts) ----
    rtFile,           \* the 'file' form field is present
    rtMime,           \* fileTypeFromBuffer(buffer)?.mime, else text/plain
    rtContent,        \* the text the document holds
    rtReply,          \* the text of the first candidate part of the model's answer
    rtFault,          \* the step of the request an outside failure hits, if any
    rtPc,             \* position in POST
    rtText,           \* text
    rtPrompted,       \* the texts translateText was called with
    rtTranslated,     \* what translateText returned, if it did
    rtResponse        \* what POST answers

genVars == <<file, srcValid, srcPages, translatedText, pc, pages, ops, lines,
             parts, remainingText, font, segments, lineStart, yPosition,
             currentPageIndex, maxWidth, response>>

pdVars == <<pdFile, pdMimeType, pdSrcValid, pdSrcPages, pdFault, pdFallbackFault,
            pdTranslatedText, pdPc, pdPath, pdPages, pdOps, pdLines, pdYPosition,
            pdResult, pdResponse>>

uiVars == <<uiFile, uiOriginalText, uiTranslatedText, uiEditedText, uiIsLoading,
            uiIsEditing, uiPending, uiSent, uiLast, uiBeforeEdit, uiArrived>>

rtVars == <<rtFile, rtMime, rtContent, rtReply, rtFault, rtPc, rtText, rtPrompted,
            rtTranslated, rtResponse>>

vars == <<genVars, pdVars, uiVars, rtVars>>

-----------------------------------------------------------------------------
(* Bounds of the model *)

\* longest translatedText enumerated exhaustively on the small documents
MaxLen == 5
\* longest translatedText enumerated on the degenerate documents
MaxShortLen == 2
\* draw operations recorded while the wrap loop makes no progress
MaxStallOps == 6
\* files the user can choose among
MaxFiles == 2
\* longest text typed into the textarea
MaxEditLen == 2

\* longest translation enumerated for process-document
MaxPdLen == 4

-----------------------------------------------------------------------------
(* Code points *)

LF == 10
SP == 32
STAR == 42

\* the characters of the enumerated texts: 'a', ' ', '*', '\n' and
\* DEVANAGARI LETTER NA (U+0928), outside 0x20-0x7E and outside WinAnsi
Alphabet == {97, SP, STAR, LF, 2344}

\* "Hello **World**"
HelloWorld == <<72, 101, 108, 108, 111, 32, 42, 42, 87, 111, 114, 108, 100, 42, 42>>

\* ECMAScript WhiteSpace and LineTerminator code points, as String.prototype.trim strips
WhiteSpace == {9, 10, 11, 12, 13, 32, 160, 5760, 8232, 8233, 8239, 8287, 12288, 65279}
                 \cup (8192..8202)

LineTerminators == {10, 13, 8232, 8233}

-----------------------------------------------------------------------------
(* Program constants of createTranslatedPdf, lengths in 1/1000 pt *)

fontSize == 12
\* faulty variant: the line height taken as twice the font size
lineHeightDouble == 2 * fontSize * 1000
\* faulty variant: the cursor is not lowered after a line
lineHeightNone == 0 * 1000

lineHeight == 16 * 1000
margin == 50 * 1000

regularFont == "Helvetica"
boldFont == "Helvetica-Bold"

\* pdf-lib: addPage() without a size creates an A4 page
DefaultPage == [width |-> 595280, height |-> 841890]
Letter == [width |-> 612 * 1000, height |-> 792 * 1000]

-----------------------------------------------------------------------------
(* String helpers *)

Min(S) == CHOOSE x \in S : \A y \in S : x <= y
Max(S) == CHOOSE x \in S : \A y \in S : x >= y

\* s.slice(from) on 1-based positions: the suffix starting at position from
Tail1(s, from) == SubSeq(s, from, Len(s))

\* String.prototype.trim
trim(s) ==
    LET keep == {i \in 1..Len(s) : s[i] \notin WhiteSpace}
    IN  IF keep = {} THEN <<>> ELSE SubSeq(s, Min(keep), Max(keep))

\* translatedText.split('\n'): always at least one element
splitLF(s) ==
    LET nl == {i \in 1..Len(s) : s[i] = LF}
        \* position of the k-th '\n'; 0 before the first, Len(s) + 1 after the last
        pos(k) == IF k = 0 THEN 0
                  ELSE IF k > Cardinality(nl) THEN Len(s) + 1
                  ELSE CHOOSE q \in nl : Cardinality({r \in nl : r < q}) = k - 1
    IN  [k \in 1..(Cardinality(nl) + 1) |-> SubSeq(s, pos(k - 1) + 1, pos(k) - 1)]

\* faulty variant: the upper end of the range is not tested
filterControlCharacters(text) ==
    SelectSeq(text, LAMBDA c : c >= 32)

\* text.match(/[\x20-\x7E]/g)?.join('') || ''
filterUnsupportedCharacters(text) ==
    SelectSeq(text, LAMBDA c : c >= 32 /\ c <= 126)

\* widths of the glyphs used, in 1/1000 em (AFM data of the standard fonts)
GlyphWidth(f, c) ==
    IF f = regularFont
    THEN CASE c = 32 -> 278 [] c = 42 -> 389 [] c = 72 -> 722 [] c = 87 -> 944
           [] c = 97 -> 556 [] c = 100 -> 556 [] c = 101 -> 556 [] c = 108 -> 222
           [] c = 111 -> 556 [] c = 114 -> 333
    ELSE CASE c = 32 -> 278 [] c = 42 -> 389 [] c = 72 -> 722 [] c = 87 -> 944
           [] c = 97 -> 556 [] c = 100 -> 611 [] c = 101 -> 556 [] c = 108 -> 278
           [] c = 111 -> 611 [] c = 114 -> 389

\* font.widthOfTextAtSize(text, size), in 1/1000 pt
RECURSIVE widthOfTextAtSize(_, _, _)
widthOfTextAtSize(f, text, size) ==
    IF text = <<>> THEN 0
    ELSE GlyphWidth(f, Head(text)) * size + widthOfTextAtSize(f, Tail(text), size)

-----------------------------------------------------------------------------
(* filteredLine.split on the pattern: two stars, lazily anything, two stars, *)
(* kept as a capture, so the matches are elements of the result           *)

IsStars(s, k) == k + 1 <= Len(s) /\ s[k] = STAR /\ s[k + 1] = STAR

\* end (exclusive) of the match of the pattern starting at position q, 0 if none
MatchEnd(s, q) ==
    IF ~IsStars(s, q) THEN 0
    ELSE LET close == {k \in (q + 2)..Len(s) :
                          /\ IsStars(s, k)
                          /\ \A j \in (q + 2)..(k - 1) : s[j] \notin LineTerminators}
         IN  IF close = {} THEN 0 ELSE Min(close) + 2

RECURSIVE SplitFrom(_, _, _)
SplitFrom(s, p, q) ==
    IF q > Len(s) THEN <<SubSeq(s, p, Len(s))>>
    ELSE IF MatchEnd(s, q) = 0 THEN SplitFrom(s, p, q + 1)
    ELSE <<SubSeq(s, p, q - 1), SubSeq(s, q, MatchEnd(s, q) - 1)>>
             \o SplitFrom(s, MatchEnd(s, q), MatchEnd(s, q))

splitBold(s) == SplitFrom(s, 1, 1)

startsWithStars(part) == Len(part) >= 2 /\ part[1] = STAR /\ part[2] = STAR
endsWithStars(part) ==
    Len(part) >= 2 /\ part[Len(part)] = STAR /\ part[Len(part) - 1] = STAR

isBold(part) == startsWithStars(part) /\ endsWithStars(part)

\* part.slice(2, -2)
sliceBold(part) == SubSeq(part, 3, Len(part) - 2)

-----------------------------------------------------------------------------
(* One pass of the inner while loop (lines 64-91): the line to draw and the *)
(* text left over.                                                          *)

\* number of characters of the first testLine wider than width, 0 if none is
FirstOver(r, f, width) ==
    LET over == {n \in 1..Len(r) : widthOfTextAtSize(f, SubSeq(r, 1, n), fontSize) > width}
    IN  IF over = {} THEN 0 ELSE Min(over)

\* faulty variant: the first space is taken, as indexOf(' ') finds it
indexOfSpace(r, n) ==
    LET sp == {j \in 1..n : r[j] = SP}
    IN  IF sp = {} THEN 0 ELSE Min(sp)

\* remainingText.lastIndexOf(' ', i) as a 1-based position, 0 for -1
lastIndexOfSpace(r, n) ==
    LET sp == {j \in 1..n : r[j] = SP}
    IN  IF sp = {} THEN 0 ELSE Max(sp)

\* faulty variant: a word wider than the line is kept whole instead of being cut
BreakLineWholeWord(r, f, width) ==
    LET n == FirstOver(r, f, width)
        lastSpace == lastIndexOfSpace(r, n)
    IN  IF n = 0 THEN [currentLine |-> r, rest |-> <<>>]
        ELSE IF lastSpace # 0
        THEN [currentLine |-> SubSeq(r, 1, lastSpace - 1), rest |-> Tail1(r, lastSpace + 1)]
        ELSE [currentLine |-> r, rest |-> <<>>]

BreakLine(r, f, width) ==
    LET n == FirstOver(r, f, width)
        lastSpace == lastIndexOfSpace(r, n)
    IN  IF n = 0 THEN [currentLine |-> r, rest |-> <<>>]
        ELSE IF lastSpace # 0
        THEN [currentLine |-> SubSeq(r, 1, lastSpace - 1), rest |-> Tail1(r, lastSpace + 1)]
        ELSE [currentLine |-> SubSeq(r, 1, n - 1), rest |-> Tail1(r, n)]

-----------------------------------------------------------------------------
(* Inputs *)

Page(w, h) == [width |-> w * 1000, height |-> h * 1000]

\* a small page: two 'a' fit the width, three baselines fit the height
SmallPage == Page(115, 140)
\* a second page of another size: two baselines fit the height
OtherPage == Page(130, 124)

\* a wider page: "a a" fits the width, "a a a" does not
WidePage == Page(125, 140)

SmallDocs == {<<SmallPage>>, <<SmallPage, OtherPage>>, <<WidePage>>}

\* no page at all; narrower than the two margins; narrower than one glyph;
\* lower than the two margins
DegenerateDocs == {<<>>, <<Page(80, 140)>>, <<Page(102, 140)>>, <<Page(115, 90)>>}

Texts(n) == UNION {[1..k -> Alphabet] : k \in 0..n}

\* n copies of the line l joined by '\n'
RepeatedLines(n, l) ==
    [i \in 1..(n * (Len(l) + 1) - 1) |->
        IF i % (Len(l) + 1) = 0 THEN LF ELSE l[i % (Len(l) + 1)]]

\* texts of 100 non-empty lines without markup, each narrower than a Letter page
HundredLines == {RepeatedLines(100, <<97>>), RepeatedLines(100, <<97, SP, 97>>)}

Scenarios ==
    {[srcValid |-> TRUE, srcPages |-> <<Letter>>, translatedText |-> HelloWorld],
     [srcValid |-> TRUE, srcPages |-> <<Letter, Letter>>, translatedText |-> <<>>],
     [srcValid |-> TRUE, srcPages |-> <<SmallPage, OtherPage, SmallPage>>,
      translatedText |-> RepeatedLines(6, <<97>>)],
     [srcValid |-> TRUE, srcPages |-> <<WidePage, SmallPage>>,
      translatedText |-> RepeatedLines(4, <<97, SP, 97>>)]}

Inputs ==
    [srcValid : {TRUE}, srcPages : SmallDocs, translatedText : Texts(MaxLen)]
    \cup [srcValid : {TRUE}, srcPages : DegenerateDocs, translatedText : Texts(MaxShortLen)]
    \cup [srcValid : {FALSE}, srcPages : {<<>>}, translatedText : Texts(MaxShortLen)]
    \cup [srcValid : {TRUE}, srcPages : {<<Letter>>}, translatedText : HundredLines]
    \cup Scenarios

-----------------------------------------------------------------------------
(* generate-pdf: POST and createTranslatedPdf of src/unnamed/part_002 *)

NoResponse == [status |-> 0, translatedPdf |-> <<>>, error |-> ""]

Rect(p, w, h) ==
    [op |-> "drawRectangle", page |-> p, x |-> 0, y |-> 0, width |-> w, height |-> h,
     text |-> <<>>, font |-> "", rem |-> <<>>]

\* rem records the remainingText the drawn line was cut from
Text(p, xx, yy, t, f, r) ==
    [op |-> "drawText", page |-> p, x |-> xx, y |-> yy, width |-> 0, height |-> 0,
     text |-> t, font |-> f, rem |-> r]

\* faulty variant: only the first page is erased
ClearFirstPageOnly(pp) ==
    [i \in 1..1 |-> Rect(i - 1, pp[i].width, pp[i].height)]

\* the erase pass: pdfDoc.getPages().forEach(page => page.drawRectangle(...))
ClearExistingContent(pp) ==
    [i \in 1..Len(pp) |-> Rect(i - 1, pp[i].width, pp[i].height)]

PdNoResponse == [status |-> 0, translatedPdf |-> <<>>, error |-> ""]

\* fields names the keys of the JSON body
RtNoResponse ==
    [status |-> 0, fields |-> {}, originalText |-> <<>>, translatedText |-> <<>>]

\* the Home component before anything is selected, lines 39-47
UiIdle ==
    /\ uiFile = 0 /\ uiOriginalText = <<>> /\ uiTranslatedText = <<>>
    /\ uiEditedText = <<>> /\ uiIsLoading = FALSE /\ uiIsEditing = FALSE
    /\ uiPending = <<>> /\ uiSent = <<>> /\ uiLast = "mount"
    /\ uiBeforeEdit = <<>> /\ uiArrived = FALSE

\* the route of src/app/api/process-document at rest
RtIdle ==
    /\ rtFile = FALSE /\ rtMime = "text/plain" /\ rtContent = <<>> /\ rtReply = <<>>
    /\ rtFault = "none" /\ rtPc = "idle" /\ rtText = <<>> /\ rtPrompted = <<>>
    /\ rtTranslated = <<>> /\ rtResponse = RtNoResponse

\* process-document at rest, while generate-pdf runs
PdIdle ==
    /\ pdFile = FALSE /\ pdMimeType = "text/plain" /\ pdSrcValid = FALSE
    /\ pdSrcPages = <<>> /\ pdFault = "none" /\ pdFallbackFault = FALSE
    /\ pdTranslatedText = <<>> /\ pdPc = "idle" /\ pdPath = "primary"
    /\ pdPages = <<>> /\ pdOps = <<>> /\ pdLines = <<>> /\ pdYPosition = 0
    /\ pdResult = <<>> /\ pdResponse = PdNoResponse

\* A request enters at POST; createTranslatedPdf is also entered directly
\* (pc = "call"), which is the only way it meets an empty translatedText,
\* since POST answers 400 to one.
GenInit ==
    /\ PdIdle /\ UiIdle /\ RtIdle
    /\ \E in \in Inputs :
          /\ srcValid = in.srcValid
          /\ srcPages = in.srcPages
          /\ translatedText = in.translatedText
    /\ \/ pc = "POST" /\ file \in BOOLEAN
       \/ pc = "call" /\ file = TRUE
    /\ pages = <<>>
    /\ ops = <<>>
    /\ lines = <<>>
    /\ parts = <<>>
    /\ remainingText = <<>>
    /\ font = regularFont
    /\ segments = <<>>
    /\ lineStart = [page |-> 0, y |-> 0]
    /\ yPosition = 0
    /\ currentPageIndex = 0
    /\ maxWidth = 0
    /\ response = NoResponse

\* generate-pdf at rest, while process-document runs
GenIdle ==
    /\ file = FALSE /\ srcValid = FALSE /\ srcPages = <<>> /\ translatedText = <<>>
    /\ pc = "idle" /\ pages = <<>> /\ ops = <<>> /\ lines = <<>> /\ parts = <<>>
    /\ remainingText = <<>> /\ font = regularFont /\ segments = <<>>
    /\ lineStart = [page |-> 0, y |-> 0] /\ yPosition = 0
    /\ currentPageIndex = 0 /\ maxWidth = 0 /\ response = NoResponse

\* POST, lines 124-133: the two fields are required, then the engine is called
POST ==
    /\ pc = "POST"
    /\ IF ~file \/ translatedText = <<>>
       THEN /\ response' = [status |-> 400, translatedPdf |-> <<>>,
                            error |-> "Missing required fields"]
            /\ pc' = "responded"
       ELSE /\ pc' = "call"
            /\ UNCHANGED response
    /\ UNCHANGED <<file, srcValid, srcPages, translatedText, pages, ops, lines, parts,
                   remainingText, font, segments, lineStart, yPosition, currentPageIndex,
                   maxWidth>>
    /\ UNCHANGED <<pdVars, uiVars, rtVars>>

\* createTranslatedPdf, lines 11-39: load, embed the fonts, erase, split into lines.
\* load throws on bytes that are no PDF; getPages()[0].getSize() throws without a page.
Load ==
    /\ pc = "call"
    /\ IF ~srcValid \/ srcPages = <<>>
       THEN /\ pc' = "threw"
            /\ pages' = IF srcValid THEN srcPages ELSE pages
            /\ UNCHANGED <<ops, lines, yPosition, currentPageIndex, maxWidth>>
       ELSE /\ pages' = srcPages
            /\ currentPageIndex' = 0
            /\ yPosition' = srcPages[1].height - margin
            /\ maxWidth' = srcPages[1].width - (2 * margin)
            /\ ops' = ClearExistingContent(srcPages)
            /\ lines' = splitLF(translatedText)
            /\ pc' = "lines"
    /\ UNCHANGED <<file, srcValid, srcPages, translatedText, parts, remainingText, font,
                   segments, lineStart, response>>
    /\ UNCHANGED <<pdVars, uiVars, rtVars>>

\* faulty variant: only the empty line is taken as blank
isEmptyLine(line) == line = <<>>

\* line 42: line.trim() === ''
isBlankLine(line) == trim(line) = <<>>

\* for (const line of lines), lines 41-51
NextLine ==
    /\ pc = "lines"
    /\ lines # <<>>
    /\ lines' = Tail(lines)
    /\ segments' = <<>>
    /\ lineStart' = [page |-> currentPageIndex, y |-> yPosition]
    /\ IF isBlankLine(Head(lines))
       THEN /\ yPosition' = yPosition - lineHeight
            /\ UNCHANGED <<parts, pc>>
       ELSE /\ parts' = splitBold(filterUnsupportedCharacters(Head(lines)))
            /\ pc' = "parts"
            /\ UNCHANGED yPosition
    /\ UNCHANGED <<file, srcValid, srcPages, translatedText, pages, ops, remainingText,
                   font, currentPageIndex, maxWidth, response>>
    /\ UNCHANGED <<pdVars, uiVars, rtVars>>

\* for (const part of parts), lines 53-60
NextPart ==
    /\ pc = "parts"
    /\ IF parts = <<>>
       THEN pc' = "lines" /\ UNCHANGED <<parts, font, remainingText, segments>>
       ELSE /\ parts' = Tail(parts)
            /\ IF Head(parts) = <<>>
               THEN UNCHANGED <<pc, font, remainingText, segments>>
               ELSE /\ font' = IF isBold(Head(parts)) THEN boldFont ELSE regularFont
                    /\ remainingText' = IF isBold(Head(parts)) THEN sliceBold(Head(parts))
                                                               ELSE Head(parts)
                    /\ segments' = Append(segments, [part |-> Head(parts),
                                                     text |-> remainingText',
                                                     font |-> font'])
                    /\ pc' = "wrap"
    /\ UNCHANGED <<file, srcValid, srcPages, translatedText, pages, ops, lines,
                   lineStart, yPosition, currentPageIndex, maxWidth, response>>
    /\ UNCHANGED <<pdVars, uiVars, rtVars>>

\* faulty variant: the cursor is compared with the margin before it is lowered
NewPageNeededLate(y) == y < margin

\* lines 103-106: yPosition -= lineHeight; if (yPosition < margin)
NewPageNeeded(y) == y - lineHeight < margin

\* faulty variant: moving to a source page removes the pages after it
PagesAfterBreakDropRest(pp, next) ==
    IF next < Len(pp) THEN SubSeq(pp, 1, next + 1) ELSE Append(pp, DefaultPage)

\* lines 107-112: the next source page is reused, else addPage() appends one
PagesAfterBreak(pp, next) ==
    IF next < Len(pp) THEN pp ELSE Append(pp, DefaultPage)

\* one iteration of while (remainingText.length > 0), lines 62-115
WrapLine ==
    /\ pc = "wrap"
    /\ IF remainingText = <<>>
       THEN pc' = "parts" /\ UNCHANGED <<remainingText, ops, yPosition, currentPageIndex, pages>>
       ELSE LET b == BreakLine(remainingText, font, maxWidth)
                next == currentPageIndex + 1
            IN  /\ b.rest # remainingText \/ Len(ops) < MaxStallOps
                /\ remainingText' = b.rest
                /\ ops' = Append(ops, Text(currentPageIndex, margin, yPosition,
                                           trim(b.currentLine), font, remainingText))
                /\ IF NewPageNeeded(yPosition)
                   THEN /\ currentPageIndex' = next
                        /\ pages' = PagesAfterBreak(pages, next)
                        /\ yPosition' = pages'[next + 1].height - margin
                   ELSE /\ yPosition' = yPosition - lineHeight
                        /\ UNCHANGED <<currentPageIndex, pages>>
                /\ UNCHANGED pc
    /\ UNCHANGED <<file, srcValid, srcPages, translatedText, lines, parts, font, segments,
                   lineStart, maxWidth, response>>
    /\ UNCHANGED <<pdVars, uiVars, rtVars>>

\* lines 119-120: pdfDoc.save()
Save ==
    /\ pc = "lines"
    /\ lines = <<>>
    /\ pc' = "returned"
    /\ UNCHANGED <<file, srcValid, srcPages, translatedText, pages, ops, lines, parts,
                   remainingText, font, segments, lineStart, yPosition, currentPageIndex,
                   maxWidth, response>>
    /\ UNCHANGED <<pdVars, uiVars, rtVars>>

\* POST, lines 132-142: the document, or 500 when the engine threw
Respond ==
    /\ pc \in {"returned", "threw"}
    /\ pc' = "responded"
    /\ response' = IF pc = "returned"
                   THEN [status |-> 200, translatedPdf |-> <<[pages |-> pages, ops |-> ops]>>,
                         error |-> ""]
                   ELSE [status |-> 500, translatedPdf |-> <<>>,
                         error |-> "Error generating PDF"]
    /\ UNCHANGED <<file, srcValid, srcPages, translatedText, pages, ops, lines, parts,
                   remainingText, font, segments, lineStart, yPosition, currentPageIndex,
                   maxWidth>>
    /\ UNCHANGED <<pdVars, uiVars, rtVars>>

GenNext == POST \/ Load \/ NextLine \/ NextPart \/ WrapLine \/ Save \/ Respond

-----------------------------------------------------------------------------
(* process-document: POST and createTranslatedPdf of src/unnamed/part_004 *)

PdfMime == "application/pdf"

\* the code points the WinAnsi encoding of the standard fonts can encode, among
\* those used here; drawText throws on any other
WinAnsi == (32..126) \cup (160..255)

\* page.drawText(text, ...) encodes every character but the line breaks
CanDraw(text) == \A j \in 1..Len(text) : text[j] \in WinAnsi \/ text[j] \in LineTerminators

\* the characters of the enumerated translations: 'a', ' ', '\n', U+00E9 (outside
\* 0x20-0x7E, inside WinAnsi) and U+0928 (outside both)
PdAlphabet == {97, SP, LF, 233, 2344}

\* translateText returns translatedText.trim()
PdTexts == {t \in UNION {[1..k -> PdAlphabet] : k \in 0..MaxPdLen} : trim(t) = t}

PdSources ==
    [mimeType : {PdfMime}, srcValid : {TRUE},
     srcPages : {<<>>, <<OtherPage>>, <<OtherPage, SmallPage>>}]
    \cup [mimeType : {PdfMime}, srcValid : {FALSE}, srcPages : {<<>>}]
    \cup [mimeType : {"image/png", "text/plain"}, srcValid : {FALSE}, srcPages : {<<>>}]

\* the failures from outside that a request can meet
PdFaults(mimeType) ==
    {"none", "translateText", "embedFont", "save"}
    \cup (IF mimeType = PdfMime THEN {"load"} ELSE {})
    \cup (IF mimeType = "image/png" THEN {"createWorker"} ELSE {})

\* faulty variant: the fallback wraps nothing either but starts at the top margin
FallbackDocumentAtMargin(text) ==
    [pages |-> <<Letter>>,
     ops |-> <<Text(0, margin, Letter.height - margin, text, regularFont, <<>>)>>]

\* lines 130-142: the document the catch block builds
FallbackDocument(text) ==
    [pages |-> <<Page(612, 792)>>,
     ops |-> <<Text(0, 50 * 1000, 750 * 1000, text, regularFont, <<>>)>>]

PdInit ==
    /\ GenIdle /\ UiIdle /\ RtIdle
    /\ \E src \in PdSources :
          /\ pdMimeType = src.mimeType
          /\ pdSrcValid = src.srcValid
          /\ pdSrcPages = src.srcPages
          /\ pdFault \in PdFaults(src.mimeType)
    /\ pdFile \in BOOLEAN
    /\ pdFallbackFault \in BOOLEAN
    /\ pdTranslatedText \in PdTexts
    /\ pdPc = "POST"
    /\ pdPath = "primary"
    /\ pdPages = <<>>
    /\ pdOps = <<>>
    /\ pdLines = <<>>
    /\ pdYPosition = 0
    /\ pdResult = <<>>
    /\ pdResponse = PdNoResponse

\* POST, lines 157-197: up to the call of createTranslatedPdf.  translateText
\* throws on an unexpected response; createWorker is outside performOcr's try.
PdPOST ==
    /\ pdPc = "POST"
    /\ IF ~pdFile
       THEN /\ pdResponse' = [status |-> 400, translatedPdf |-> <<>>,
                              error |-> "No file uploaded"]
            /\ pdPc' = "responded"
       ELSE IF pdFault \in {"translateText", "createWorker"}
       THEN /\ pdResponse' = [status |-> 500, translatedPdf |-> <<>>, error |-> pdFault]
            /\ pdPc' = "responded"
       ELSE /\ pdPc' = "call"
            /\ UNCHANGED pdResponse
    /\ UNCHANGED <<pdFile, pdMimeType, pdSrcValid, pdSrcPages, pdFault, pdFallbackFault,
                   pdTranslatedText, pdPath, pdPages, pdOps, pdLines, pdYPosition,
                   pdResult>>
    /\ UNCHANGED <<genVars, uiVars, rtVars>>

\* the pages of the primary document once the fonts are embedded, lines 77-86
PdPrimaryPages == IF pdMimeType = PdfMime THEN pdSrcPages ELSE <<Page(612, 792)>>

\* lines 96-104: what the primary path erases
PdClearThePage(pp) == <<Rect(0, pp[1].width, pp[1].height)>>

\* createTranslatedPdf, lines 77-106: load or create, embed the fonts, erase,
\* split into lines.  A throw enters the catch block.
PdBegin ==
    /\ pdPc = "call"
    /\ IF \/ pdMimeType = PdfMime /\ (~pdSrcValid \/ pdFault = "load")
          \/ pdFault = "embedFont"
       THEN /\ pdPc' = "catch"
            /\ UNCHANGED <<pdPages, pdOps, pdLines, pdYPosition>>
       ELSE IF PdPrimaryPages = <<>>
       THEN /\ pdPc' = "catch"
            /\ pdPages' = PdPrimaryPages
            /\ UNCHANGED <<pdOps, pdLines, pdYPosition>>
       ELSE /\ pdPages' = PdPrimaryPages
            /\ pdYPosition' = PdPrimaryPages[1].height - margin
            /\ pdOps' = PdClearThePage(PdPrimaryPages)
            /\ pdLines' = splitLF(pdTranslatedText)
            /\ pdPc' = "lines"
    /\ UNCHANGED <<pdFile, pdMimeType, pdSrcValid, pdSrcPages, pdFault, pdFallbackFault,
                   pdTranslatedText, pdPath, pdResult, pdResponse>>
    /\ UNCHANGED <<genVars, uiVars, rtVars>>

\* for (const line of lines), lines 107-124.  Text is always drawn on
\* currentPage, the first page.
PdLine ==
    /\ pdPc = "lines"
    /\ pdLines # <<>>
    /\ LET line == Head(pdLines)
           newPage == pdYPosition < margin
           y == IF newPage THEN pdPages[1].height - margin ELSE pdYPosition
       IN  /\ pdPages' = IF newPage THEN Append(pdPages, pdPages[1]) ELSE pdPages
           /\ IF trim(line) # <<>> /\ ~CanDraw(line)
              THEN /\ pdPc' = "catch"
                   /\ pdYPosition' = y
                   /\ UNCHANGED <<pdOps, pdLines>>
              ELSE /\ pdOps' = IF trim(line) # <<>>
                                 THEN Append(pdOps, Text(0, margin, y, line, regularFont, <<>>))
                                 ELSE pdOps
                   /\ pdYPosition' = y - lineHeight
                   /\ pdLines' = Tail(pdLines)
                   /\ UNCHANGED pdPc
    /\ UNCHANGED <<pdFile, pdMimeType, pdSrcValid, pdSrcPages, pdFault, pdFallbackFault,
                   pdTranslatedText, pdPath, pdResult, pdResponse>>
    /\ UNCHANGED <<genVars, uiVars, rtVars>>

\* line 126: return await pdfDoc.save()
PdSave ==
    /\ pdPc = "lines"
    /\ pdLines = <<>>
    /\ IF pdFault = "save"
       THEN pdPc' = "catch" /\ UNCHANGED pdResult
       ELSE pdPc' = "returned" /\ pdResult' = <<[pages |-> pdPages, ops |-> pdOps]>>
    /\ UNCHANGED <<pdFile, pdMimeType, pdSrcValid, pdSrcPages, pdFault, pdFallbackFault,
                   pdTranslatedText, pdPath, pdPages, pdOps, pdLines, pdYPosition,
                   pdResponse>>
    /\ UNCHANGED <<genVars, uiVars, rtVars>>

\* the catch block, lines 127-143: a throw in it leaves createTranslatedPdf
PdFallback ==
    /\ pdPc = "catch"
    /\ pdPath' = "fallback"
    /\ IF pdFallbackFault \/ ~CanDraw(pdTranslatedText)
       THEN pdPc' = "threw" /\ UNCHANGED pdResult
       ELSE pdPc' = "returned" /\ pdResult' = <<FallbackDocument(pdTranslatedText)>>
    /\ UNCHANGED <<pdFile, pdMimeType, pdSrcValid, pdSrcPages, pdFault, pdFallbackFault,
                   pdTranslatedText, pdPages, pdOps, pdLines, pdYPosition, pdResponse>>
    /\ UNCHANGED <<genVars, uiVars, rtVars>>

\* faulty variant: after a throw the pages drawn so far are sent as the document
PdRespondPartial ==
    /\ pdPc \in {"returned", "threw"}
    /\ pdPc' = "responded"
    /\ pdResponse' = IF pdPc = "returned"
                     THEN [status |-> 200, translatedPdf |-> pdResult, error |-> ""]
                     ELSE [status |-> 200,
                           translatedPdf |-> <<[pages |-> pdPages, ops |-> pdOps]>>,
                           error |-> ""]
    /\ UNCHANGED <<pdFile, pdMimeType, pdSrcValid, pdSrcPages, pdFault, pdFallbackFault,
                   pdTranslatedText, pdPath, pdPages, pdOps, pdLines, pdYPosition,
                   pdResult>>
    /\ UNCHANGED <<genVars, uiVars, rtVars>>

\* POST, lines 197-214
PdRespond ==
    /\ pdPc \in {"returned", "threw"}
    /\ pdPc' = "responded"
    /\ pdResponse' = IF pdPc = "returned"
                     THEN [status |-> 200, translatedPdf |-> pdResult, error |-> ""]
                     ELSE [status |-> 500, translatedPdf |-> <<>>,
                           error |-> "Error processing document"]
    /\ UNCHANGED <<pdFile, pdMimeType, pdSrcValid, pdSrcPages, pdFault, pdFallbackFault,
                   pdTranslatedText, pdPath, pdPages, pdOps, pdLines, pdYPosition,
                   pdResult>>
    /\ UNCHANGED <<genVars, uiVars, rtVars>>

PdNext == PdPOST \/ PdBegin \/ PdLine \/ PdSave \/ PdFallback \/ PdRespond

-----------------------------------------------------------------------------
(* The Home component of src/unnamed/part_001.  A text is a sequence of      *)
(* tokens: f >= 1 stands for the translation of file f as the server sent    *)
(* it, 0 for a character the user typed, -1 for the error message.           *)

Files == 1..MaxFiles

TranslationOf(f) == <<f>>
ErrorText == <<-1>>

\* line 269: the results panel, which holds Edit, Save, Cancel and Download PDF
PanelShown == uiOriginalText # <<>> \/ uiTranslatedText # <<>>

UiInit ==
    /\ GenIdle /\ PdIdle /\ RtIdle
    /\ UiIdle

\* handleFileChange, lines 66-70
handleFileChange ==
    /\ \E f \in Files : uiFile' = f
    /\ uiLast' = "select"
    /\ UNCHANGED <<uiOriginalText, uiTranslatedText, uiEditedText, uiIsLoading,
                   uiIsEditing, uiPending, uiSent, uiBeforeEdit, uiArrived>>
    /\ UNCHANGED <<genVars, pdVars, rtVars>>

\* handleSubmit up to the fetch, lines 80-97; the button is disabled while
\* there is no file or a request is loading (line 257)
handleSubmit ==
    /\ uiFile # 0 /\ ~uiIsLoading
    /\ uiIsLoading' = TRUE
    /\ uiPending' = Append(uiPending, uiFile)
    /\ uiLast' = "submit"
    /\ UNCHANGED <<uiFile, uiOriginalText, uiTranslatedText, uiEditedText, uiIsEditing,
                   uiSent, uiBeforeEdit, uiArrived>>
    /\ UNCHANGED <<genVars, pdVars, rtVars>>

\* handleSubmit after the fetch, lines 99-106 and 112-114: the response is ok.
\* originalText is empty when the server extracted nothing.
ResponseOk ==
    /\ uiPending # <<>>
    /\ uiOriginalText' \in {TranslationOf(Head(uiPending)), <<>>}
    /\ uiTranslatedText' = TranslationOf(Head(uiPending))
    /\ uiEditedText' = TranslationOf(Head(uiPending))
    /\ uiIsLoading' = FALSE
    /\ uiPending' = Tail(uiPending)
    /\ uiArrived' = TRUE
    /\ uiLast' = "response"
    /\ UNCHANGED <<uiFile, uiIsEditing, uiSent, uiBeforeEdit>>
    /\ UNCHANGED <<genVars, pdVars, rtVars>>

\* handleSubmit after the fetch, lines 99-101 and 108-114: the fetch failed or
\* the response is not ok
ResponseFailed ==
    /\ uiPending # <<>>
    /\ uiOriginalText' = ErrorText
    /\ uiTranslatedText' = <<>>
    /\ uiIsLoading' = FALSE
    /\ uiPending' = Tail(uiPending)
    /\ uiArrived' = TRUE
    /\ uiLast' = "failure"
    /\ UNCHANGED <<uiFile, uiEditedText, uiIsEditing, uiSent, uiBeforeEdit>>
    /\ UNCHANGED <<genVars, pdVars, rtVars>>

\* handleEdit, lines 117-120; the button is shown when not editing (line 302)
handleEdit ==
    /\ PanelShown /\ ~uiIsEditing
    /\ uiIsEditing' = TRUE
    /\ uiEditedText' = uiTranslatedText
    /\ uiBeforeEdit' = uiTranslatedText
    /\ uiArrived' = FALSE
    /\ uiLast' = "edit"
    /\ UNCHANGED <<uiFile, uiOriginalText, uiTranslatedText, uiIsLoading, uiPending,
                   uiSent>>
    /\ UNCHANGED <<genVars, pdVars, rtVars>>

\* onChange of the textarea, lines 326-332: a character is typed or deleted
onChange ==
    /\ PanelShown /\ uiIsEditing
    /\ \/ Len(uiEditedText) < MaxEditLen /\ uiEditedText' = Append(uiEditedText, 0)
       \/ uiEditedText # <<>>
            /\ uiEditedText' = SubSeq(uiEditedText, 1, Len(uiEditedText) - 1)
    /\ uiLast' = "type"
    /\ UNCHANGED <<uiFile, uiOriginalText, uiTranslatedText, uiIsLoading, uiIsEditing,
                   uiPending, uiSent, uiBeforeEdit, uiArrived>>
    /\ UNCHANGED <<genVars, pdVars, rtVars>>

\* handleSaveEdit, lines 122-125
handleSaveEdit ==
    /\ PanelShown /\ uiIsEditing
    /\ uiTranslatedText' = uiEditedText
    /\ uiIsEditing' = FALSE
    /\ uiLast' = "save"
    /\ UNCHANGED <<uiFile, uiOriginalText, uiEditedText, uiIsLoading, uiPending, uiSent,
                   uiBeforeEdit, uiArrived>>
    /\ UNCHANGED <<genVars, pdVars, rtVars>>

\* faulty variant: Cancel keeps the edited text as the translation
handleCancelEditCommits ==
    /\ PanelShown /\ uiIsEditing
    /\ uiTranslatedText' = uiEditedText
    /\ uiIsEditing' = FALSE
    /\ uiEditedText' = <<>>
    /\ uiLast' = "cancel"
    /\ UNCHANGED <<uiFile, uiOriginalText, uiIsLoading, uiPending, uiSent,
                   uiBeforeEdit, uiArrived>>
    /\ UNCHANGED <<genVars, pdVars, rtVars>>

\* handleCancelEdit, lines 127-130
handleCancelEdit ==
    /\ PanelShown /\ uiIsEditing
    /\ uiIsEditing' = FALSE
    /\ uiEditedText' = <<>>
    /\ uiLast' = "cancel"
    /\ UNCHANGED <<uiFile, uiOriginalText, uiTranslatedText, uiIsLoading, uiPending,
                   uiSent, uiBeforeEdit, uiArrived>>
    /\ UNCHANGED <<genVars, pdVars, rtVars>>

\* handleDownloadPDF up to the fetch, lines 132-141; the button is shown when
\* not editing (line 313)
handleDownloadPDF ==
    /\ PanelShown /\ ~uiIsEditing
    /\ uiSent' = <<[file |-> uiFile,
                     translatedText |-> IF uiIsEditing THEN uiEditedText
                                                       ELSE uiTranslatedText]>>
    /\ uiLast' = "download"
    /\ UNCHANGED <<uiFile, uiOriginalText, uiTranslatedText, uiEditedText, uiIsLoading,
                   uiIsEditing, uiPending, uiBeforeEdit, uiArrived>>
    /\ UNCHANGED <<genVars, pdVars, rtVars>>

UiNext ==
    \/ handleFileChange \/ handleSubmit \/ ResponseOk \/ ResponseFailed \/ handleEdit
    \/ onChange \/ handleSaveEdit \/ handleCancelEdit \/ handleDownloadPDF

-----------------------------------------------------------------------------
(* process-document: POST of src/app/api/process-document/route.ts *)

RtMimes == {PdfMime, "image/png", "text/plain"}

\* texts a document holds and texts the model answers: empty, plain, and one
\* with white space around it
RtTexts == {<<>>, <<97>>, <<SP, 97, LF>>}

\* the failures from outside that a request can meet: pdf-parse throws;
\* createWorker throws; the requested language does not load; neither it nor
\* English loads; recognize throws; recognize and then terminate throw; the
\* fetch of translateText rejects; the answer has no candidate part
RtFaults(mime) ==
    {"none", "fetch", "structure"}
    \cup (IF mime = PdfMime THEN {"pdf"} ELSE {})
    \cup (IF mime = "image/png"
          THEN {"createWorker", "load", "loadEng", "recognize", "terminate"} ELSE {})

RtInit ==
    /\ GenIdle /\ PdIdle /\ UiIdle
    /\ rtFile \in BOOLEAN
    /\ rtMime \in RtMimes
    /\ rtContent \in RtTexts
    /\ rtReply \in RtTexts
    /\ rtFault \in RtFaults(rtMime)
    /\ rtPc = "POST"
    /\ rtText = <<>>
    /\ rtPrompted = <<>>
    /\ rtTranslated = <<>>
    /\ rtResponse = RtNoResponse

\* POST, lines 45-56: the file field is required
RtPOST ==
    /\ rtPc = "POST"
    /\ IF ~rtFile
       THEN /\ rtResponse' = [status |-> 400, fields |-> {"error"},
                              originalText |-> <<>>, translatedText |-> <<>>]
            /\ rtPc' = "responded"
       ELSE /\ rtPc' = "extract"
            /\ UNCHANGED rtResponse
    /\ UNCHANGED <<rtFile, rtMime, rtContent, rtReply, rtFault, rtText, rtPrompted,
                   rtTranslated>>
    /\ UNCHANGED <<genVars, pdVars, uiVars>>

\* lines 60-61 and extractTextFromPdf, lines 9-17: a throw of pdf-parse is
\* caught and gives ''
RtExtractTextFromPdf ==
    /\ rtPc = "extract"
    /\ rtMime = PdfMime
    /\ rtText' = IF rtFault = "pdf" THEN <<>> ELSE rtContent
    /\ rtPc' = "translate"
    /\ UNCHANGED <<rtFile, rtMime, rtContent, rtReply, rtFault, rtPrompted, rtTranslated,
                   rtResponse>>
    /\ UNCHANGED <<genVars, pdVars, uiVars>>

\* the faults of performOcr that leave it by a throw: createWorker is called
\* before the try, terminate inside the catch
RtOcrThrows == {"createWorker", "terminate"}

\* lines 62-64 and performOcr, lines 19-41
RtPerformOcr ==
    /\ rtPc = "extract"
    /\ rtMime \notin {PdfMime, "text/plain"}
    /\ IF rtFault \in RtOcrThrows
       THEN rtPc' = "threw" /\ UNCHANGED rtText
       ELSE /\ rtText' = IF rtFault \in {"loadEng", "recognize"} THEN <<>> ELSE rtContent
            /\ rtPc' = "translate"
    /\ UNCHANGED <<rtFile, rtMime, rtContent, rtReply, rtFault, rtPrompted, rtTranslated,
                   rtResponse>>
    /\ UNCHANGED <<genVars, pdVars, uiVars>>

\* lines 65-68: buffer.toString('utf8')
RtReadText ==
    /\ rtPc = "extract"
    /\ rtMime = "text/plain"
    /\ rtText' = rtContent
    /\ rtPc' = "translate"
    /\ UNCHANGED <<rtFile, rtMime, rtContent, rtReply, rtFault, rtPrompted, rtTranslated,
                   rtResponse>>
    /\ UNCHANGED <<genVars, pdVars, uiVars>>

\* line 71 and translateText, lines 107-131
RtTranslateText ==
    /\ rtPc = "translate"
    /\ rtPrompted' = Append(rtPrompted, trim(rtText))
    /\ IF rtFault \in {"fetch", "structure"}
       THEN rtPc' = "threw" /\ UNCHANGED rtTranslated
       ELSE rtPc' = "returned" /\ rtTranslated' = <<trim(rtReply)>>
    /\ UNCHANGED <<rtFile, rtMime, rtContent, rtReply, rtFault, rtText, rtResponse>>
    /\ UNCHANGED <<genVars, pdVars, uiVars>>

\* lines 73-93
RtRespond ==
    /\ rtPc \in {"returned", "threw"}
    /\ rtPc' = "responded"
    /\ rtResponse' = IF rtPc = "returned"
                     THEN [status |-> 200, fields |-> {"originalText", "translatedText"},
                           originalText |-> trim(rtText),
                           translatedText |-> rtTranslated[1]]
                     ELSE [status |-> 500, fields |-> {"error"},
                           originalText |-> <<>>, translatedText |-> <<>>]
    /\ UNCHANGED <<rtFile, rtMime, rtContent, rtReply, rtFault, rtText, rtPrompted,
                   rtTranslated>>
    /\ UNCHANGED <<genVars, pdVars, uiVars>>

RtNext ==
    \/ RtPOST \/ RtExtractTextFromPdf \/ RtPerformOcr \/ RtReadText \/ RtTranslateText
    \/ RtRespond

-----------------------------------------------------------------------------
(* Specifications *)

GenSpec == GenInit /\ [][GenNext]_vars

PdSpec == PdInit /\ [][PdNext]_vars

UiSpec == UiInit /\ [][UiNext]_vars

RtSpec == RtInit /\ [][RtNext]_vars

-----------------------------------------------------------------------------
(* Claims about generate-pdf *)

TextOps == {i \in 1..Len(ops) : ops[i].op = "drawText"}
RectOps == {i \in 1..Len(ops) : ops[i].op = "drawRectangle"}

Measured(o) == widthOfTextAtSize(o.font, o.text, fontSize)

\* a non-empty text without a space
IsOneWord(t) == t # <<>> /\ \A j \in 1..Len(t) : t[j] # SP

\* C1 (as claimed): every line passed to drawText measures at most maxWidth,
\* except a line that is exactly one word itself wider than maxWidth.
C1_LineFitsMaxWidth ==
    \A i \in TextOps :
        \/ Measured(ops[i]) <= maxWidth
        \/ IsOneWord(ops[i].text)

\* C2 (as claimed): a word wider than maxWidth is drawn whole on its own line:
\* when the text left to wrap is one such word, the line drawn is that word.
C2_LongWordDrawnWhole ==
    \A i \in TextOps :
        (IsOneWord(ops[i].rem)
           /\ widthOfTextAtSize(ops[i].font, ops[i].rem, fontSize) > maxWidth)
        => ops[i].text = ops[i].rem

\* C2 (amended): when the text left to wrap is one word wider than maxWidth,
\* the line drawn is a proper prefix of it, cut at character level: the longest
\* prefix that fits maxWidth (empty when not even one character fits), and
\* the rest of the word is what the following line is cut from.
C2_LongWordSplitAtCharacter ==
    \A i \in TextOps :
        LET o == ops[i]
            k == Len(o.text)
        IN  (IsOneWord(o.rem) /\ widthOfTextAtSize(o.font, o.rem, fontSize) > maxWidth)
            => /\ k < Len(o.rem)
               /\ o.text = SubSeq(o.rem, 1, k)
               /\ k > 0 => Measured(o) <= maxWidth
               /\ widthOfTextAtSize(o.font, SubSeq(o.rem, 1, k + 1), fontSize) > maxWidth
               /\ i < Len(ops) => ops[i + 1].rem = Tail1(o.rem, k + 1)

\* C2 witness: a word wider than maxWidth was cut after at least one character
C2_Witness ==
    \E i \in TextOps :
        /\ IsOneWord(ops[i].rem)
        /\ widthOfTextAtSize(ops[i].font, ops[i].rem, fontSize) > maxWidth
        /\ Len(ops[i].text) > 0
        /\ Len(ops[i].text) < Len(ops[i].rem)

HelloSpace == SubSeq(HelloWorld, 1, 6)
World == SubSeq(HelloWorld, 9, 13)

\* C3 (as claimed): "Hello **World**" on a wide page gives exactly two drawText
\* calls, ("Hello ", regular) then ("World", bold), on one baseline, the second
\* further right.
C3_HelloWorldOneBaseline ==
    (pc = "returned" /\ translatedText = HelloWorld /\ srcPages = <<Letter>>)
    => \E i, j \in TextOps :
          /\ TextOps = {i, j} /\ i < j
          /\ ops[i].text = HelloSpace /\ ops[i].font = regularFont
          /\ ops[j].text = World /\ ops[j].font = boldFont
          /\ ops[i].y = ops[j].y
          /\ ops[j].x > ops[i].x

\* C4 (as claimed): every drawText baseline lies within
\* [margin, height of the page drawn on - margin].
C4_BaselineWithinPage ==
    \A i \in TextOps :
        /\ margin <= ops[i].y
        /\ ops[i].y <= pages[ops[i].page + 1].height - margin

\* C6 (as claimed): bytes that do not load as a PDF still give the caller a
\* document, one fresh page holding the unwrapped text, and no error.
C6_LoadFailureRecovered ==
    (pc = "responded" /\ file /\ translatedText # <<>> /\ ~srcValid)
    => /\ response.status = 200
       /\ Len(response.translatedPdf) = 1
       /\ Len(response.translatedPdf[1].pages) = 1

\* C9: createTranslatedPdf called with an empty translatedText on a source of
\* n >= 2 pages returns n pages, each painted with one full-page rectangle, with
\* no drawText call and no page appended.
C9_EmptyTextErasesEveryPage ==
    (pc = "returned" /\ translatedText = <<>> /\ Len(srcPages) >= 2)
    => /\ pages = srcPages
       /\ TextOps = {}
       /\ \A p \in 1..Len(srcPages) :
             Cardinality({i \in RectOps :
                 /\ ops[i].page = p - 1
                 /\ ops[i].x = 0 /\ ops[i].y = 0
                 /\ ops[i].width = srcPages[p].width
                 /\ ops[i].height = srcPages[p].height}) = 1
       /\ Cardinality(RectOps) = Len(srcPages)

C9_Witness == pc = "returned" /\ translatedText = <<>> /\ Len(srcPages) >= 2

\* C10: on a one-page 612x792 source, 100 non-empty lines without markup,
\* each narrower than maxWidth, give a document of exactly 3 pages.
C10_HundredLinesThreePages ==
    (pc = "returned" /\ srcPages = <<Letter>> /\ translatedText \in HundredLines)
    => Len(pages) = 3

C10_Witness ==
    /\ pc = "returned" /\ srcPages = <<Letter>> /\ translatedText \in HundredLines
    /\ Cardinality(TextOps) = 100

\* number of drawText calls issued on the page of index p
LinesOnPage(p) == Cardinality({i \in TextOps : ops[i].page = p})

\* floor((pageHeight - 2*margin) / lineHeight) for the page of index p
UsableLines(p) == (pages[p + 1].height - 2 * margin) \div lineHeight

\* C11 as stated: the number of text lines drawn on any one page never exceeds
\* floor((pageHeight - 2*margin) / lineHeight), which is 43 on a 792-high page.
C11_LinesPerPageFloor ==
    \A p \in 0..(Len(pages) - 1) : LinesOnPage(p) <= UsableLines(p)

\* C11 amended: the number of text lines drawn on any one page never exceeds
\* floor((pageHeight - 2*margin) / lineHeight) + 1, and never exceeds one line
\* on a page lower than the two margins; a 792-high page takes 44 lines.
C11_LinesPerPageFloorPlusOne ==
    /\ \A p \in 0..(Len(pages) - 1) :
           LinesOnPage(p) <= IF UsableLines(p) < 0 THEN 1 ELSE UsableLines(p) + 1
    /\ \A p \in 0..(Len(pages) - 1) :
           pages[p + 1].height = 792 * 1000 => LinesOnPage(p) <= 44

\* a 792-high page that carries its 44 lines, one more than the floor
C11_Witness ==
    \E p \in 0..(Len(pages) - 1) :
        /\ pages[p + 1].height = 792 * 1000
        /\ LinesOnPage(p) = 44
        /\ LinesOnPage(p) = UsableLines(p) + 1

IsPrefix(s, t) == Len(s) <= Len(t) /\ SubSeq(t, 1, Len(s)) = s

\* the engine is past the load of the source document
Laying == pc \in {"lines", "parts", "wrap", "returned"}

\* C12: for a fixed source the page count never decreases as further lines are
\* laid out: every step of the layout keeps the pages it has and at most appends
\* to them, so the count after any longer text is at least the count after a
\* shorter one, and it is never below the page count of the source.
C12_PageCountNeverDecreases ==
    [][/\ Laying /\ Laying' => IsPrefix(pages, pages')
       /\ Laying' => IsPrefix(srcPages', pages')]_vars

\* lines past the first have been laid out and the document has grown beyond
\* the source
C12_Witness ==
    /\ pc = "returned"
    /\ Len(splitLF(translatedText)) >= 2
    /\ Len(pages) > Len(srcPages)

\* the wrap loop is about to draw a line after which the cursor leaves the page
LeavesPage == pc = "wrap" /\ remainingText # <<>> /\ yPosition - lineHeight < margin

\* C13: when the cursor leaves a page the page index grows by exactly 1; a source
\* page at that index is reused and nothing is appended, otherwise exactly one
\* page of the first page's width and height is appended; yPosition is reset to
\* the height of the page moved to minus margin.
C13_NextPageReusedOrLikeFirst ==
    [][LeavesPage =>
         /\ currentPageIndex' = currentPageIndex + 1
         /\ IF currentPageIndex + 1 < Len(pages)
            THEN pages' = pages
            ELSE pages' = Append(pages, [width |-> pages[1].width,
                                         height |-> pages[1].height])
         /\ yPosition' = pages'[currentPageIndex' + 1].height - margin]_vars

\* C14: every iteration of the wrap loop strictly shortens remainingText, also
\* when maxWidth is smaller than the width of a single character, so that
\* createTranslatedPdf terminates.
C14_WrapLoopShortens ==
    [][pc = "wrap" /\ remainingText # <<>> =>
         Len(remainingText') < Len(remainingText)]_vars

\* the input line whose parts are being visited (pc is "parts" or "wrap")
CurrentLine ==
    LET s == translatedText
        nl == {i \in 1..Len(s) : s[i] = LF}
        k == Cardinality(nl) + 1 - Len(lines)
        \* position of the j-th '\n'; 0 before the first, Len(s) + 1 after the last
        pos(j) == IF j = 0 THEN 0
                  ELSE IF j > Cardinality(nl) THEN Len(s) + 1
                  ELSE CHOOSE q \in nl : Cardinality({r \in nl : r < q}) = j - 1
    IN  SubSeq(s, pos(k - 1) + 1, pos(k) - 1)

\* the texts of the segments, in order, as one string
RECURSIVE ConcatTexts(_)
ConcatTexts(segs) ==
    IF segs = <<>> THEN <<>> ELSE Head(segs).text \o ConcatTexts(Tail(segs))

\* s from position q on, without the two delimiters at each end of every match
\* of the pattern
RECURSIVE StripFrom(_, _)
StripFrom(s, q) ==
    IF q > Len(s) THEN <<>>
    ELSE IF MatchEnd(s, q) = 0 THEN <<s[q]>> \o StripFrom(s, q + 1)
    ELSE SubSeq(s, q + 2, MatchEnd(s, q) - 3) \o StripFrom(s, MatchEnd(s, q))

\* the part is one whole match of the pattern
IsMatchedPair(part) == MatchEnd(part, 1) = Len(part) + 1

\* C15: once all the parts of a line are visited, the segment texts concatenated
\* in order are the filtered line with only the delimiters of the matched pairs
\* removed; no other character is lost, duplicated or reordered.
C15_SegmentsRoundTrip ==
    pc = "parts" /\ parts = <<>> =>
        ConcatTexts(segments) = StripFrom(filterUnsupportedCharacters(CurrentLine), 1)

\* C16: a segment is marked bold and loses two characters at each end only if
\* it is a matched pair; a part with an unmatched delimiter stays literal
\* regular text.
C16_OnlyMatchedPairsBold ==
    \A k \in 1..Len(segments) :
        ~IsMatchedPair(segments[k].part) =>
            segments[k].font = regularFont /\ segments[k].text = segments[k].part

InRange(t) == \A j \in 1..Len(t) : t[j] >= 32 /\ t[j] <= 126

\* t is a run of consecutive characters of s
IsSubstring(t, s) ==
    \E a \in 0..(Len(s) - Len(t)) : SubSeq(s, a + 1, a + Len(t)) = t

RECURSIVE ConcatParts(_)
ConcatParts(segs) ==
    IF segs = <<>> THEN <<>> ELSE Head(segs).part \o ConcatParts(Tail(segs))

RECURSIVE Flatten(_)
Flatten(ss) == IF ss = <<>> THEN <<>> ELSE Head(ss) \o Flatten(Tail(ss))

\* C17: every string measured (the prefixes of remainingText) or drawn has only
\* code points 0x20-0x7E, in the order they have in the input line, and what is
\* split on the delimiters is the filtered line.
C17_OnlySupportedCharacters ==
    /\ \A i \in TextOps :
          /\ InRange(ops[i].rem) /\ InRange(ops[i].text)
          /\ IsSubstring(ops[i].text, ops[i].rem)
    /\ pc \in {"parts", "wrap"} =>
          /\ InRange(remainingText)
          /\ ConcatParts(segments) \o Flatten(parts)
                = filterUnsupportedCharacters(CurrentLine)
          /\ segments # <<>> =>
                IsSubstring(remainingText, segments[Len(segments)].text)
          /\ \A k \in 1..Len(segments) :
                IsSubstring(segments[k].text, segments[k].part)

\* a line holding a character outside the range has been filtered, split and drawn
C17_Witness ==
    /\ pc = "parts" /\ parts = <<>>
    /\ CurrentLine # filterUnsupportedCharacters(CurrentLine)
    /\ segments # <<>>
    /\ ops # <<>>
    /\ ops[Len(ops)].op = "drawText"
    /\ ops[Len(ops)].text # <<>>
    /\ IsSubstring(ops[Len(ops)].text, segments[Len(segments)].text)

\* words separated by single spaces
IsWords(r) ==
    /\ r # <<>> /\ r[1] # SP /\ r[Len(r)] # SP
    /\ \A j \in 1..(Len(r) - 1) : ~(r[j] = SP /\ r[j + 1] = SP)

\* last position of the word that starts at position j
WordEnd(r, j) ==
    LET sp == {q \in j..Len(r) : r[q] = SP}
    IN  IF sp = {} THEN Len(r) ELSE Min(sp) - 1

Fits(o, t) == widthOfTextAtSize(o.font, t, fontSize) <= maxWidth

\* the spaces of the text the i-th operation was cut from before which the
\* words fit the line while one word more does not
BreakPoints(i) ==
    LET r == ops[i].rem
    IN  {j \in 1..Len(r) : /\ r[j] = SP
                           /\ Fits(ops[i], SubSeq(r, 1, j - 1))
                           /\ ~Fits(ops[i], SubSeq(r, 1, WordEnd(r, j + 1)))}

NumLines == Cardinality({i \in 1..Len(translatedText) : translatedText[i] = LF}) + 1

\* C21: a whitespace-only or empty input line causes no drawText call and lowers
\* yPosition by exactly one lineHeight; nothing else of the layout moves.
C21_BlankLineOnlyLowersCursor ==
    [][pc = "lines" /\ lines # <<>> /\ trim(Head(lines)) = <<>> =>
         /\ ops' = ops
         /\ yPosition' = yPosition - lineHeight
         /\ currentPageIndex' = currentPageIndex
         /\ pages' = pages
         /\ pc' = "lines"]_vars

\* a line of spaces was passed after text had been drawn
C21_Witness ==
    /\ pc = "lines"
    /\ Len(lines) < NumLines
    /\ CurrentLine # <<>> /\ trim(CurrentLine) = <<>>
    /\ TextOps # {}
    /\ yPosition = lineStart.y - lineHeight

\* the text operation that follows the i-th operation, if any
FollowedByText(i) == i < Len(ops) /\ ops[i + 1].op = "drawText"

\* C22: every drawText starts at x = margin and the position of the drawText
\* calls only moves forward: each is on a later page than the one before it, or
\* on the same page strictly lower, so text of a later input line is never on
\* the baseline of, or above, text of an earlier line on the same page.
C22_PositionOnlyMovesForward ==
    \A i \in TextOps :
        /\ ops[i].x = margin
        /\ FollowedByText(i) =>
              \/ ops[i + 1].page > ops[i].page
              \/ ops[i + 1].page = ops[i].page /\ ops[i + 1].y < ops[i].y

\* several input lines were drawn, some below others on one page and some on a
\* later page
C22_Witness ==
    /\ pc = "returned"
    /\ NumLines >= 3
    /\ \E i \in TextOps : FollowedByText(i) /\ ops[i + 1].page = ops[i].page
    /\ \E i \in TextOps : FollowedByText(i) /\ ops[i + 1].page > ops[i].page

\* indices of the pages appended beyond those of the source
AppendedPages == Len(srcPages)..(Len(pages) - 1)

\* C24: every page appended beyond the source's pages receives at least one
\* drawText call, so the returned document never ends with an appended blank
\* page.
C24_NoAppendedBlankPage ==
    pc = "returned" =>
        \A p \in AppendedPages : \E i \in TextOps : ops[i].page = p

\* C25: every input line passed, whatever its content, leaves the cursor on a
\* later page or at least one lineHeight lower than where the line was entered.
C25_EveryLineLowersCursor ==
    pc = "lines" /\ Len(lines) < NumLines =>
        \/ currentPageIndex > lineStart.page
        \/ yPosition <= lineStart.y - lineHeight

\* C26: every line drawn on any page satisfies margin + width(line) <= that
\* page's width - margin, apart from a single word.
C26_LineFitsItsPage ==
    \A i \in TextOps :
        \/ margin + Measured(ops[i]) <= pages[ops[i].page + 1].width - margin
        \/ IsOneWord(ops[i].text)

-----------------------------------------------------------------------------
(* Claims about process-document *)

PdTextOps == {i \in 1..Len(pdOps) : pdOps[i].op = "drawText"}
PdRectOps == {i \in 1..Len(pdOps) : pdOps[i].op = "drawRectangle"}

\* C5: when a step of the primary path threw, what createTranslatedPdf returns
\* is the fallback document alone: one 612x792 page with the whole
\* translatedText drawn once, unwrapped, at (50, 750); nothing drawn on the
\* primary document is in it.
C5_FallbackDocumentOnly ==
    (pdPath = "fallback" /\ pdPc \in {"returned", "responded"} /\ pdResult # <<>>)
    => /\ Len(pdResult) = 1
       /\ pdResult[1].pages = <<[width |-> 612000, height |-> 792000]>>
       /\ Len(pdResult[1].ops) = 1
       /\ pdResult[1].ops[1].op = "drawText"
       /\ pdResult[1].ops[1].text = pdTranslatedText
       /\ pdResult[1].ops[1].x = 50000 /\ pdResult[1].ops[1].y = 750000
       /\ pdResult[1].ops[1].page = 0

\* C5 witness: the primary path threw after drawing, and the fallback returned
C5_Witness ==
    /\ pdPath = "fallback" /\ pdPc = "returned" /\ pdResult # <<>>
    /\ PdTextOps # {} /\ PdRectOps # {}

\* C7 (as claimed): once the catch block is entered, createTranslatedPdf returns
\* a document unless the fallback's own font embedding fails, whatever the text.
C7_FallbackAlwaysReturns ==
    (pdPath = "fallback" /\ ~pdFallbackFault) => pdPc # "threw"

\* C8 (as claimed): with a PDF source of n >= 2 pages, each of the n pages gets
\* a full-page rectangle, and all of them before the first drawText.
C8_EveryPageErasedFirst ==
    (pdMimeType = PdfMime /\ Len(pdSrcPages) >= 2 /\ pdPc \in {"lines", "returned"})
    => \A p \in 1..Len(pdSrcPages) :
          \E i \in PdRectOps :
              /\ pdOps[i].page = p - 1
              /\ pdOps[i].width = pdSrcPages[p].width
              /\ pdOps[i].height = pdSrcPages[p].height
              /\ \A j \in PdTextOps : i < j

\* the response is a 200 whose translatedPdf is the whole document the primary
\* path or the catch block returned
PdAnswersDocument ==
    /\ pdResponse.status = 200
    /\ pdResponse.translatedPdf = pdResult
    /\ \/ /\ pdPath = "primary"
          /\ pdLines = <<>>
          /\ pdResult = <<[pages |-> pdPages, ops |-> pdOps]>>
       \/ /\ pdPath = "fallback"
          /\ pdResult = <<FallbackDocument(pdTranslatedText)>>

\* the response is a 500 with a message and no document, the catch block
\* having thrown
PdAnswersFallbackFailure ==
    /\ pdResponse.status = 500
    /\ pdResponse.translatedPdf = <<>>
    /\ pdResponse.error # ""
    /\ pdPath = "fallback"
    /\ pdFallbackFault \/ ~CanDraw(pdTranslatedText)

\* the request got as far as the call of createTranslatedPdf
PdEngineCalled == pdFile /\ pdFault \notin {"translateText", "createWorker"}

\* C18 as stated: every response is either a 200 with the complete output of
\* createTranslatedPdf or, the fallback renderer having thrown, a 500 with an
\* error message and no translatedPdf.
C18_OutcomeBinary ==
    pdPc = "responded" => PdAnswersDocument \/ PdAnswersFallbackFailure

\* C18 amended: for a request that reaches createTranslatedPdf the response is
\* either a 200 with the complete primary or fallback document or, the fallback
\* renderer having thrown, a 500 with a message and no document; a request that
\* does not reach it (no file, translateText or createWorker throws) is answered
\* 400 or 500 without a document.
C18_OutcomeBinaryOnceCalled ==
    pdPc = "responded" =>
        IF PdEngineCalled
        THEN PdAnswersDocument \/ PdAnswersFallbackFailure
        ELSE /\ pdResponse.status \in {400, 500}
             /\ pdResponse.translatedPdf = <<>>
             /\ pdResponse.error # ""

\* the primary path drew a line and threw, the fallback threw as well, and the
\* caller got the 500
C18_Witness ==
    /\ pdPc = "responded"
    /\ PdEngineCalled
    /\ PdAnswersFallbackFailure
    /\ PdTextOps # {}

\* C23: when yPosition has fallen below margin a page of the first page's width
\* and height is added, the line is drawn on that page at its height minus
\* margin, every later line is drawn on the page added last, and no two lines
\* are drawn at the same position of the same page.
C23_LinesContinueOnNewPage ==
    [][pdPc = "lines" /\ pdPath = "primary" /\ pdLines # <<>> =>
         /\ pdYPosition < margin => pdPages' = Append(pdPages, pdPages[1])
         /\ pdOps' # pdOps =>
               LET o == pdOps'[Len(pdOps')]
               IN  /\ Len(pdPages') > Len(PdPrimaryPages) => o.page = Len(pdPages') - 1
                   /\ pdYPosition < margin => o.y = pdPages'[o.page + 1].height - margin
                   /\ \A i \in PdTextOps :
                         ~(pdOps[i].page = o.page /\ pdOps[i].y = o.y)]_vars

-----------------------------------------------------------------------------
(* Claims about the Home component *)

\* the translation of file f is part of the text t
HoldsTranslationOf(t, f) == \E j \in 1..Len(t) : t[j] = f

\* C27: under every interleaving, the file sent to /api/generate-pdf is the
\* file whose processing produced the translatedText sent with it.
C27_DownloadSendsMatchingFile ==
    \A k \in 1..Len(uiSent) :
        \A f \in Files :
            HoldsTranslationOf(uiSent[k].translatedText, f) => uiSent[k].file = f

\* C28: after Cancel isEditing is false and, no response having been applied
\* since Edit, translatedText is what it was before Edit; after Save isEditing
\* is false and translatedText is the last editedText; Download PDF sends the
\* displayed translatedText.
C28_CancelDiscardsSaveCommits ==
    /\ uiLast = "cancel" =>
          ~uiIsEditing /\ (~uiArrived => uiTranslatedText = uiBeforeEdit)
    /\ uiLast = "save" => ~uiIsEditing /\ uiTranslatedText = uiEditedText
    /\ uiLast = "download" =>
          ~uiIsEditing /\ uiSent[Len(uiSent)].translatedText = uiTranslatedText

\* typed edits were saved over a translation
C28_Witness ==
    /\ uiLast = "save"
    /\ ~uiArrived
    /\ uiBeforeEdit # <<>>
    /\ uiTranslatedText # uiBeforeEdit
    /\ IsPrefix(uiBeforeEdit, uiTranslatedText)

\* C29: while isEditing stays true, editedText changes only through typing in
\* the textarea; a process-document response never overwrites or clears it.
C29_OnlyTypingChangesEdits ==
    [][uiIsEditing /\ uiIsEditing' /\ uiEditedText' # uiEditedText =>
         uiLast' = "type"]_vars

-----------------------------------------------------------------------------
(* Claims about the process-document route *)

\* the faults that are a failure of PDF text extraction or of OCR
RtExtractionFaults == {"pdf", "createWorker", "loadEng", "recognize", "terminate"}

\* C30: the status is 400 exactly when there is no file field; otherwise a
\* failure of PDF text extraction or OCR is absorbed as empty extracted text,
\* with the translation still attempted and no error returned for it; the
\* response is 200 with originalText and translatedText exactly when
\* translateText returns; any thrown error yields 500 without translatedText.
C30_ExtractionFailureAbsorbed ==
    rtPc = "responded" =>
        /\ rtResponse.status = 400 <=> ~rtFile
        /\ rtFile /\ rtFault \in RtExtractionFaults =>
              /\ rtPrompted = <<<<>>>>
              /\ rtResponse.status = 200
              /\ rtResponse.originalText = <<>>
        /\ rtResponse.status = 200 <=> rtTranslated # <<>>
        /\ rtResponse.status = 200 =>
              /\ rtResponse.fields = {"originalText", "translatedText"}
              /\ rtResponse.translatedText = rtTranslated[1]
        /\ rtFile /\ rtTranslated = <<>> =>
              rtResponse.status = 500 /\ "translatedText" \notin rtResponse.fields

====
